---- MODULE Spec2Model ----
(***************************************************************************)
(* Model of calibre/server.py: a single-threaded http.server.HTTPServer    *)
(* whose handler ConvertHandler answers GET (health) and POST (convert),   *)
(* the POST flow spooling the body into a temporary directory, running the *)
(* external converter under a timeout and streaming the output back.       *)
(*                                                                         *)
(* Byte strings and text are kept run-length encoded: a sequence of runs   *)
(* [ch, n] (n > 0, neighbouring runs of different ch), so that the program *)
(* constants 65536 and 500 keep their real values.                         *)
(***************************************************************************)
EXTENDS Integers, Sequences, FiniteSets, TLC

VARIABLES scope, conn, cur, pc, loc, fs, proc, resp, hist

vars == <<scope, conn, cur, pc, loc, fs, proc, resp, hist>>

----------------------------------------------------------------------------
(* Program constants *)

\* self.rfile.read(min(65536, remaining)) and f.read(65536)
ChunkSize == 65536

\* err[:500]
ErrLimit == 500

(* Bounds of the explored inputs *)

\* runs of a request body in the wide exploration
MaxBodyRuns == 2

\* runs of the converter's stderr in the wide exploration
MaxErrRuns == 2

----------------------------------------------------------------------------
(* Run-length encoded strings *)

Min(a, b) == IF a <= b THEN a ELSE b

Run(c, k) == [ch |-> c, n |-> k]

RECURSIVE BLen(_)
BLen(s) == IF s = <<>> THEN 0 ELSE Head(s).n + BLen(Tail(s))

\* a \o b on the encoded form (bytes + bytes, f.write appending to a file)
Cat(a, b) ==
    IF a = <<>> THEN b
    ELSE IF b = <<>> THEN a
    ELSE IF a[Len(a)].ch = b[1].ch
         THEN SubSeq(a, 1, Len(a) - 1)
              \o <<Run(b[1].ch, a[Len(a)].n + b[1].n)>>
              \o Tail(b)
         ELSE a \o b

\* s[:k]
RECURSIVE Take(_, _)
Take(s, k) ==
    IF k <= 0 \/ s = <<>> THEN <<>>
    ELSE IF Head(s).n <= k
         THEN <<Head(s)>> \o Take(Tail(s), k - Head(s).n)
         ELSE <<Run(Head(s).ch, k)>>

\* s[k:]
RECURSIVE Drop(_, _)
Drop(s, k) ==
    IF k <= 0 \/ s = <<>> THEN s
    ELSE IF Head(s).n <= k
         THEN Drop(Tail(s), k - Head(s).n)
         ELSE <<Run(Head(s).ch, Head(s).n - k)>> \o Tail(s)

\* s.replace(old, new)
RECURSIVE Replace(_, _, _)
Replace(s, old, new) ==
    IF s = <<>> THEN <<>>
    ELSE Cat(<<Run(IF Head(s).ch = old THEN new ELSE Head(s).ch, Head(s).n)>>,
             Replace(Tail(s), old, new))

\* the byte that is not valid UTF-8
BadByte == "xff"

NL == "\n"

\* b.decode('utf-8', errors='ignore'): undecodable bytes are dropped
RECURSIVE Decode(_)
Decode(s) ==
    IF s = <<>> THEN <<>>
    ELSE IF Head(s).ch = BadByte
         THEN Decode(Tail(s))
         ELSE Cat(<<Head(s)>>, Decode(Tail(s)))

\* how many characters of s are ch
RECURSIVE Count(_, _)
Count(s, c) ==
    IF s = <<>> THEN 0
    ELSE (IF Head(s).ch = c THEN Head(s).n ELSE 0) + Count(Tail(s), c)

\* all encoded strings of at most k runs over the given runs
RECURSIVE Strings(_, _)
Strings(runs, k) ==
    IF k = 0 THEN {<<>>}
    ELSE LET shorter == Strings(runs, k - 1)
         IN  shorter \cup
             {Append(s, r) : s \in {t \in shorter : Len(t) = k - 1},
                             r \in runs}

Canonical(s) == \A i \in 1..(Len(s) - 1) : s[i].ch # s[i + 1].ch

----------------------------------------------------------------------------
(* Requests *)

Clients == {"c1", "c2"}

NoClient == "none"

Absent == "absent"

\* request targets, split where the code looks at them
HealthPath == <<"/health">>
ConvertPath == <<"/convert">>

\* str.startswith
StartsWith(p, q) == Len(p) >= Len(q) /\ SubSeq(p, 1, Len(q)) = q

NoQuery == [from |-> Absent, to |-> Absent]
Queries == {NoQuery, [from |-> "TXT", to |-> ""]}

\* str.lower on the tokens used here
Lower(t) == IF t = "TXT" THEN "txt" ELSE t

\* (qs.get(key, [default])[0] or default).lower(); parse_qs drops blank values
QGet(q, key, default) ==
    IF q[key] = Absent \/ q[key] = "" THEN Lower(default) ELSE Lower(q[key])

\* Content-Length header values: absent, not an integer, or an integer
NoHeader == [kind |-> "absent", val |-> 0]
JunkHeader == [kind |-> "junk", val |-> 0]
IntHeader(k) == [kind |-> "int", val |-> k]

Req(m, p, q, h, s) ==
    [method |-> m, path |-> p, query |-> q, cl |-> h, stream |-> s]

NoReq == Req("none", <<>>, NoQuery, NoHeader, <<>>)

\* requests that carry no readable body
PlainReqs ==
    {Req("GET", p, NoQuery, NoHeader, <<>>) :
        p \in {HealthPath, <<"/health", "z">>, <<"/foo">>}}
    \cup {Req("DELETE", ConvertPath, NoQuery, NoHeader, <<>>),
          Req("POST", <<"/foo">>, NoQuery, NoHeader, <<>>),
          Req("POST", <<"/convert", "x">>, NoQuery, IntHeader(1), <<Run("x", 1)>>)}
    \cup {Req("POST", ConvertPath, NoQuery, h, <<Run("x", 1)>>) :
            h \in {NoHeader, JunkHeader, IntHeader(-1), IntHeader(0)}}

\* declared lengths tried for a stream: exact, one too many, one too few
Declared(s) == {k \in {BLen(s) - 1, BLen(s), BLen(s) + 1} : k > 0}

ConvertReqs(bodies, queries) ==
    UNION {{Req("POST", ConvertPath, q, IntHeader(k), s) :
                q \in queries, k \in Declared(s)} : s \in bodies}

NarrowBodies == {<<Run("x", 1)>>}

BodyRuns == {Run(c, k) : c \in {"x", "y"}, k \in {1, ChunkSize}}
WideBodies == {s \in Strings(BodyRuns, MaxBodyRuns) : Canonical(s)}

NarrowErrs == {<<Run("e", 1), Run(NL, 1)>>}

ErrRuns == {Run("e", 1), Run("e", ErrLimit), Run(NL, 1), Run(NL, ErrLimit),
            Run(BadByte, 1)}
WideErrs == {s \in Strings(ErrRuns, MaxErrRuns) : Canonical(s)}

\* What is explored: two clients with narrow payloads ("clients"), one client
\* with the same payloads ("single"), one client with wide bodies ("bodies"),
\* one client with wide converter stderr ("stderr").
Scopes == {"clients", "single", "bodies", "stderr"}

Requests(sc) ==
    IF sc = "bodies"
    THEN ConvertReqs(WideBodies, Queries)
    ELSE IF sc = "stderr"
         THEN ConvertReqs({<<Run("x", 1)>>}, {NoQuery})
         ELSE PlainReqs \cup ConvertReqs(NarrowBodies, {NoQuery})

Stderrs(sc) == IF sc = "stderr" THEN WideErrs ELSE NarrowErrs

\* how a converter may end: exit code and what it left on stderr
Exits(sc) ==
    {[rc |-> 0, err |-> <<>>]} \cup {[rc |-> 1, err |-> e] : e \in Stderrs(sc)}

----------------------------------------------------------------------------
(* Files, responses and the handler's frame *)

\* names tempfile.TemporaryDirectory(prefix='calibre_') may pick
DirNames == {"calibre_a", "calibre_b"}

NoDir == "none"

\* os.path.join(tmpdir, f'input.{source}'), os.path.join(tmpdir, f'output.{target}')
InPath(tmpdir, source) == <<tmpdir, "input", source>>
\* the output path not joined to the temporary directory
OutPathShared(tmpdir, target) == <<"/tmp", "output", target>>

OutPath(tmpdir, target) == <<tmpdir, "output", target>>

EmptyFs == [dirs |-> <<>>, files |-> <<>>]

\* tempfile.mkdtemp: the directory d is created; `by` records whose request made it
MkDir(f, d, by) == [f EXCEPT !.dirs = (d :> by) @@ f.dirs]

Exists(f, p) == p \in DOMAIN f.files

Data(f, p) == f.files[p].data

\* the file at p is created or replaced; `by` records whose request wrote it
Put(f, p, d, by) ==
    [f EXCEPT !.files = (p :> [data |-> d, by |-> by]) @@ f.files]

\* shutil.rmtree(d), what TemporaryDirectory.__exit__ does
RmTree(f, d) ==
    [dirs |-> [e \in DOMAIN f.dirs \ {d} |-> f.dirs[e]],
     files |-> [p \in {q \in DOMAIN f.files : q[1] # d} |-> f.files[p]]]

NoSnap == [exists |-> FALSE, data |-> <<>>]

Snap(f, p) ==
    IF Exists(f, p) THEN [exists |-> TRUE, data |-> Data(f, p)] ELSE NoSnap

NoResp == [lines |-> 0, status |-> 0, ctype |-> "", text |-> "", data |-> <<>>]

\* _set_headers(code, content_type) followed by one wfile.write
Respond(r, code, ctype, text, data) ==
    [r EXCEPT !.lines = @ + 1, !.status = code, !.ctype = ctype,
              !.text = text, !.data = data]

NoLoc == [source |-> "", target |-> "", content_length |-> 0, remaining |-> 0,
          tmpdir |-> NoDir, fpos |-> 0]

NoProc == [state |-> "none", rc |-> 0, stderr |-> <<>>, wrote |-> FALSE]

NoConn == [st |-> "idle", req |-> NoReq, rpos |-> 0]

\* what happened while a client's request was handled (history, not program state)
NoHist == [mkdirs |-> 0, rmdirs |-> 0, runs |-> 0,
           reads |-> 0, maxread |-> 0, maxwrite |-> 0,
           launched |-> FALSE, timedout |-> FALSE, exited |-> FALSE,
           rc |-> 0, stderr |-> <<>>, input |-> NoSnap, output |-> NoSnap,
           raised |-> FALSE, behind |-> NoClient]

Init ==
    /\ scope \in Scopes
    /\ conn = [c \in Clients |->
                 IF scope = "clients" \/ c = "c1" THEN NoConn
                 ELSE [NoConn EXCEPT !.st = "off"]]
    /\ cur = NoClient
    /\ pc = "idle"
    /\ loc = NoLoc
    /\ fs = EmptyFs
    /\ proc = NoProc
    /\ resp = [c \in Clients |-> NoResp]
    /\ hist = [c \in Clients |-> NoHist]

request == conn[cur].req

----------------------------------------------------------------------------
(* Clients and the server loop *)

\* a client connects and sends a request; it waits in the listen queue
Arrive(c) ==
    /\ conn[c].st = "idle"
    /\ \E r \in Requests(scope) :
         conn' = [conn EXCEPT ![c] = [st |-> "queued", req |-> r, rpos |-> 0]]
    /\ hist' = [hist EXCEPT ![c].behind = cur]
    /\ UNCHANGED <<scope, cur, pc, loc, fs, proc, resp>>

\* HTTPServer.serve_forever: the one server thread takes the next connection
\* only when it is not inside a handler
ServerFree == pc = "idle" /\ cur = NoClient

Accept(c) ==
    /\ ServerFree
    /\ conn[c].st = "queued"
    /\ cur' = c
    /\ pc' = "dispatch"
    /\ conn' = [conn EXCEPT ![c].st = "active"]
    /\ UNCHANGED <<scope, loc, fs, proc, resp, hist>>

\* BaseHTTPRequestHandler: a method with no do_<METHOD> gets 501
Unsupported ==
    /\ pc = "dispatch"
    /\ request.method \notin {"GET", "POST"}
    /\ resp' = [resp EXCEPT ![cur] =
                  Respond(@, 501, "text/html", "Unsupported method", <<>>)]
    /\ pc' = "return"
    /\ UNCHANGED <<scope, conn, cur, loc, fs, proc, hist>>

HealthReply(path) ==
    IF StartsWith(path, HealthPath)
    THEN [code |-> 200, ctype |-> "text/plain", text |-> "OK"]
    ELSE [code |-> 404, ctype |-> "text/plain", text |-> "Not Found"]

do_GET ==
    /\ pc = "dispatch"
    /\ request.method = "GET"
    /\ LET a == HealthReply(request.path)
       IN  resp' = [resp EXCEPT ![cur] = Respond(@, a.code, a.ctype, a.text, <<>>)]
    /\ pc' = "return"
    /\ UNCHANGED <<scope, conn, cur, loc, fs, proc, hist>>

\* do_POST up to the point where the temporary directory is created:
\* routing, query parsing, int(Content-Length) and the 400 answer
do_POST ==
    /\ pc = "dispatch"
    /\ request.method = "POST"
    /\ IF request.path # ConvertPath
       THEN /\ resp' = [resp EXCEPT ![cur] =
                          Respond(@, 404, "text/plain", "Not Found", <<>>)]
            /\ pc' = "return"
            /\ UNCHANGED <<loc, hist>>
       ELSE IF request.cl.kind = "junk"
       THEN \* int() raises ValueError
            /\ pc' = "raise"
            /\ hist' = [hist EXCEPT ![cur].raised = TRUE]
            /\ UNCHANGED <<resp, loc>>
       ELSE IF request.cl.val <= 0
       THEN /\ resp' = [resp EXCEPT ![cur] =
                          Respond(@, 400, "application/json",
                                  "Missing request body", <<>>)]
            /\ pc' = "return"
            /\ UNCHANGED <<loc, hist>>
       ELSE /\ loc' = [loc EXCEPT
                         !.source = QGet(request.query, "from", "bin"),
                         !.target = QGet(request.query, "to", "epub"),
                         !.content_length = request.cl.val]
            /\ pc' = "mkdtemp"
            /\ UNCHANGED <<resp, hist>>
    /\ UNCHANGED <<scope, conn, cur, fs, proc>>

\* the handler returned: the connection is closed, the server loops
Return ==
    /\ pc = "return"
    /\ conn' = [conn EXCEPT ![cur].st = "closed"]
    /\ cur' = NoClient
    /\ pc' = "idle"
    /\ loc' = NoLoc
    /\ proc' = NoProc
    /\ UNCHANGED <<scope, fs, resp, hist>>

\* an exception left the handler: socketserver's handle_error logs it and
\* closes the connection, the server loops
HandleError ==
    /\ pc = "raise"
    /\ conn' = [conn EXCEPT ![cur].st = "closed"]
    /\ cur' = NoClient
    /\ pc' = "idle"
    /\ loc' = NoLoc
    /\ proc' = NoProc
    /\ UNCHANGED <<scope, fs, resp, hist>>

----------------------------------------------------------------------------
(* The conversion flow of do_POST *)

in_path == InPath(loc.tmpdir, loc.source)
out_path == OutPath(loc.tmpdir, loc.target)

\* with tempfile.TemporaryDirectory(...) as tmpdir: ... open(in_path, 'wb'):
\* mkdtemp picks a name that does not exist yet
EnterTemp(d) ==
    /\ pc = "mkdtemp"
    /\ d \in DirNames \ DOMAIN fs.dirs
    /\ loc' = [loc EXCEPT !.tmpdir = d, !.remaining = loc.content_length]
    /\ fs' = Put(MkDir(fs, d, cur), InPath(d, loc.source), <<>>, cur)
    /\ hist' = [hist EXCEPT ![cur].mkdirs = @ + 1]
    /\ pc' = "copy"
    /\ UNCHANGED <<scope, conn, cur, proc, resp>>

\* a full chunk is requested whatever is left of the declared length
ReadSizeFull(remaining) == ChunkSize

\* min(65536, remaining)
ReadSize(remaining) == Min(ChunkSize, remaining)

\* rfile.read(k) on the buffered socket file: k bytes, fewer only at end of stream
Read(stream, pos, k) == Take(Drop(stream, pos), k)

\* one iteration of the copy loop, and the loop test that follows it
CopyChunk ==
    /\ pc = "copy"
    /\ LET chunk == Read(request.stream, conn[cur].rpos, ReadSize(loc.remaining))
           left == loc.remaining - BLen(chunk)
       IN  /\ hist' = [hist EXCEPT ![cur].reads = @ + 1,
                                   ![cur].maxread = IF BLen(chunk) > @
                                                    THEN BLen(chunk) ELSE @]
           /\ IF chunk = <<>>
              THEN /\ pc' = "run"
                   /\ UNCHANGED <<conn, loc, fs>>
              ELSE /\ fs' = Put(fs, in_path, Cat(Data(fs, in_path), chunk), cur)
                   /\ conn' = [conn EXCEPT ![cur].rpos = @ + BLen(chunk)]
                   /\ loc' = [loc EXCEPT !.remaining = left]
                   /\ pc' = IF left > 0 THEN "copy" ELSE "run"
    /\ UNCHANGED <<scope, cur, proc, resp>>

\* f.write (or rfile.read) raises inside the with block
CopyFail ==
    /\ pc = "copy"
    /\ pc' = "unwind"
    /\ hist' = [hist EXCEPT ![cur].raised = TRUE]
    /\ UNCHANGED <<scope, conn, cur, loc, fs, proc, resp>>

\* subprocess.run(cmd, ...): the process starts, or starting it raises
RunConverter ==
    /\ pc = "run"
    /\ \E started \in BOOLEAN :
         IF started
         THEN /\ proc' = [NoProc EXCEPT !.state = "running"]
              /\ hist' = [hist EXCEPT ![cur].runs = @ + 1,
                                      ![cur].launched = TRUE,
                                      ![cur].input = Snap(fs, in_path)]
              /\ pc' = "wait"
              /\ resp' = resp
         ELSE /\ resp' = [resp EXCEPT ![cur] =
                            Respond(@, 500, "application/json",
                                    "Failed to start converter: ", <<>>)]
              /\ hist' = [hist EXCEPT ![cur].runs = @ + 1]
              /\ pc' = "exit"
              /\ proc' = proc
    /\ UNCHANGED <<scope, conn, cur, loc, fs>>

\* the converter (a black box) writes its output file: nothing in it, a copy
\* of its input, or other bytes
ConvWrite ==
    /\ proc.state = "running"
    /\ ~proc.wrote
    /\ \E d \in {<<>>, Data(fs, in_path), <<Run("z", ChunkSize + 1)>>} :
         fs' = Put(fs, out_path, d, cur)
    /\ proc' = [proc EXCEPT !.wrote = TRUE]
    /\ UNCHANGED <<scope, conn, cur, pc, loc, resp, hist>>

\* the converter exits on its own
ConvExit ==
    /\ proc.state = "running"
    /\ \E e \in Exits(scope) :
         proc' = [proc EXCEPT !.state = "exited", !.rc = e.rc, !.stderr = e.err]
    /\ UNCHANGED <<scope, conn, cur, pc, loc, fs, resp, hist>>

\* the timeout of subprocess.run elapses while the process is running
TimeoutExpire ==
    /\ pc = "wait"
    /\ proc.state = "running"
    /\ hist' = [hist EXCEPT ![cur].timedout = TRUE]
    /\ pc' = "kill"
    /\ UNCHANGED <<scope, conn, cur, loc, fs, proc, resp>>

\* the process is left running
KillProcNot(p) == p

\* process.kill()
KillProc(p) == IF p.state = "running" THEN [p EXCEPT !.state = "killed"] ELSE p

\* subprocess.run on TimeoutExpired: process.kill() ...
Kill ==
    /\ pc = "kill"
    /\ proc' = KillProc(proc)
    /\ pc' = "reap"
    /\ UNCHANGED <<scope, conn, cur, loc, fs, resp, hist>>

\* ... process.wait() returns once the process is gone, TimeoutExpired is
\* re-raised and the handler answers 504
Reap ==
    /\ pc = "reap"
    /\ proc.state \in {"killed", "exited"}
    /\ resp' = [resp EXCEPT ![cur] =
                  Respond(@, 504, "application/json", "Conversion timeout", <<>>)]
    /\ pc' = "exit"
    /\ UNCHANGED <<scope, conn, cur, loc, fs, proc, hist>>

\* the whole of stderr, not its first 500 characters
ErrMsgWhole(stderr) == Replace(Decode(stderr), NL, " ")

\* err[:500].replace('\n', ' ') of the decoded stderr
ErrMsg(stderr) == Replace(Take(Decode(stderr), ErrLimit), NL, " ")

\* the output file is looked at before the exit code
AfterRunOutputFirst(rc, stderr, out) ==
    IF out.exists /\ BLen(out.data) > 0
    THEN [code |-> 200, ctype |-> "application/octet-stream",
          text |-> "", data |-> <<>>]
    ELSE IF rc # 0
    THEN [code |-> 500, ctype |-> "application/json",
          text |-> "Converter failed: ", data |-> ErrMsg(stderr)]
    ELSE [code |-> 500, ctype |-> "application/json",
          text |-> "No output produced", data |-> <<>>]

\* the answer once subprocess.run has returned
AfterRun(rc, stderr, out) ==
    IF rc # 0
    THEN [code |-> 500, ctype |-> "application/json",
          text |-> "Converter failed: ", data |-> ErrMsg(stderr)]
    ELSE IF ~out.exists \/ BLen(out.data) = 0
    THEN [code |-> 500, ctype |-> "application/json",
          text |-> "No output produced", data |-> <<>>]
    ELSE [code |-> 200, ctype |-> "application/octet-stream",
          text |-> "", data |-> <<>>]

\* subprocess.run returned: the checks of the exit code and of the output file,
\* and the status line of the answer
Finished ==
    /\ pc = "wait"
    /\ proc.state = "exited"
    /\ LET a == AfterRun(proc.rc, proc.stderr, Snap(fs, out_path))
       IN  /\ resp' = [resp EXCEPT ![cur] = Respond(@, a.code, a.ctype, a.text, a.data)]
           /\ pc' = IF a.code = 200 THEN "stream" ELSE "exit"
    /\ hist' = [hist EXCEPT ![cur].exited = TRUE, ![cur].rc = proc.rc,
                            ![cur].stderr = proc.stderr,
                            ![cur].output = Snap(fs, out_path)]
    /\ UNCHANGED <<scope, conn, cur, loc, fs, proc>>

\* one iteration of the streaming loop: f.read(65536), wfile.write(buf)
StreamChunk ==
    /\ pc = "stream"
    /\ LET buf == Take(Drop(Data(fs, out_path), loc.fpos), ChunkSize)
       IN  IF buf = <<>>
           THEN /\ pc' = "exit"
                /\ UNCHANGED <<loc, resp, hist>>
           ELSE /\ resp' = [resp EXCEPT ![cur].data = Cat(@, buf)]
                /\ loc' = [loc EXCEPT !.fpos = @ + BLen(buf)]
                /\ hist' = [hist EXCEPT ![cur].maxwrite = IF BLen(buf) > @
                                                          THEN BLen(buf) ELSE @]
                /\ pc' = "stream"
    /\ UNCHANGED <<scope, conn, cur, fs, proc>>

\* f.read or wfile.write raises inside the with block (the client went away)
StreamFail ==
    /\ pc = "stream"
    /\ pc' = "unwind"
    /\ hist' = [hist EXCEPT ![cur].raised = TRUE]
    /\ UNCHANGED <<scope, conn, cur, loc, fs, proc, resp>>

\* the directory is removed at the end of the block only, not when an
\* exception leaves it
ExitTempOnReturn(f, d, how) == IF how = "exit" THEN RmTree(f, d) ELSE f

\* TemporaryDirectory.__exit__, on a return ("exit") and on an exception ("unwind")
ExitTemp(f, d, how) == RmTree(f, d)

LeaveTemp ==
    /\ pc \in {"exit", "unwind"}
    /\ fs' = ExitTemp(fs, loc.tmpdir, pc)
    /\ hist' = [hist EXCEPT ![cur].rmdirs =
                  IF loc.tmpdir \in DOMAIN fs.dirs /\ loc.tmpdir \notin DOMAIN fs'.dirs
                  THEN @ + 1 ELSE @]
    /\ pc' = IF pc = "exit" THEN "return" ELSE "raise"
    /\ UNCHANGED <<scope, conn, cur, loc, proc, resp>>

----------------------------------------------------------------------------

Next ==
    \/ \E c \in Clients : Arrive(c)
    \/ \E c \in Clients : Accept(c)
    \/ Unsupported
    \/ do_GET
    \/ do_POST
    \/ \E d \in DirNames : EnterTemp(d)
    \/ CopyChunk
    \/ CopyFail
    \/ RunConverter
    \/ ConvWrite
    \/ ConvExit
    \/ TimeoutExpire
    \/ Kill
    \/ Reap
    \/ Finished
    \/ StreamChunk
    \/ StreamFail
    \/ LeaveTemp
    \/ Return
    \/ HandleError

Spec == Init /\ [][Next]_vars

\* The server thread keeps running, time passes and a killed process dies;
\* clients and the converter are not obliged to do anything.
Handler ==
    \/ \E c \in Clients : Accept(c)
    \/ Unsupported \/ do_GET \/ do_POST
    \/ \E d \in DirNames : EnterTemp(d)
    \/ CopyChunk \/ RunConverter \/ TimeoutExpire \/ Kill \/ Reap \/ Finished
    \/ StreamChunk \/ LeaveTemp \/ Return \/ HandleError

\* the same program with one client at a time
InitSingle == Init /\ scope = "single"

FairSpec == InitSingle /\ [][Next]_vars /\ WF_vars(Handler)

----------------------------------------------------------------------------
(* Properties *)

\* the handler of c's request has returned control to the server loop
Returned(c) ==
    \/ conn[c].st = "closed"
    \/ cur = c /\ pc \in {"return", "raise"}

\* c sent POST /convert with a positive declared length
IsConvert(c) ==
    /\ conn[c].req.method = "POST"
    /\ conn[c].req.path = ConvertPath
    /\ conn[c].req.cl.kind = "int"
    /\ conn[c].req.cl.val > 0

\* nothing c's request created is left in the file system
NothingLeft(c) ==
    /\ \A d \in DOMAIN fs.dirs : fs.dirs[d] # c
    /\ \A p \in DOMAIN fs.files : fs.files[p].by # c

\* C1: every request that created a temporary directory has, once its handler
\* has returned control (by a return on any answer, or by an exception raised
\* while writing the input or streaming the output), no directory and no file
\* left, and the directory was removed exactly once.
C1_TempDirRemoved ==
    \A c \in Clients :
        /\ hist[c].mkdirs <= 1
        /\ hist[c].rmdirs <= hist[c].mkdirs
        /\ Returned(c) => hist[c].rmdirs = hist[c].mkdirs /\ NothingLeft(c)

\* C1 witness: one request timed out, another raised while streaming its
\* 200 answer; both have returned and each removed its directory once
C1_Witness ==
    /\ conn["c1"].st = "closed" /\ conn["c2"].st = "closed"
    /\ resp["c1"].status = 504 /\ hist["c1"].mkdirs = 1 /\ hist["c1"].rmdirs = 1
    /\ resp["c2"].status = 200 /\ hist["c2"].raised
    /\ hist["c2"].mkdirs = 1 /\ hist["c2"].rmdirs = 1
    /\ fs = EmptyFs

\* the answer the converter outcome calls for, by the precedence of the claim
Expected(c) ==
    IF hist[c].timedout THEN [code |-> 504, text |-> "Conversion timeout"]
    ELSE IF ~hist[c].launched
    THEN [code |-> 500, text |-> "Failed to start converter: "]
    ELSE IF hist[c].rc # 0 THEN [code |-> 500, text |-> "Converter failed: "]
    ELSE IF ~hist[c].output.exists \/ BLen(hist[c].output.data) = 0
    THEN [code |-> 500, text |-> "No output produced"]
    ELSE [code |-> 200, text |-> ""]

ConverterSucceeded(c) ==
    /\ hist[c].exited /\ ~hist[c].timedout /\ hist[c].rc = 0
    /\ hist[c].output.exists /\ BLen(hist[c].output.data) > 0

\* C2: for POST /convert with a positive declared length the converter is never
\* invoked twice, and every such request that was answered had it invoked
\* exactly once and got the one answer its outcome calls for (timeout, launch
\* failure, nonzero exit even with an output file, no output, success, in that
\* precedence); 200 (application/octet-stream) is answered exactly when the
\* converter exited zero within the timeout and left a non-empty output file.
C2_StatusByOutcome ==
    \A c \in Clients :
        /\ hist[c].runs <= 1
        /\ hist[c].runs = 1 => resp[c].lines <= 1
        /\ (Returned(c) /\ IsConvert(c)) =>
             /\ resp[c].lines >= 1 =>
                  /\ hist[c].runs = 1
                  /\ resp[c].lines = 1
                  /\ resp[c].status = Expected(c).code
                  /\ resp[c].text = Expected(c).text
             /\ resp[c].status = 200 <=> ConverterSucceeded(c)
             /\ resp[c].status = 200 => resp[c].ctype = "application/octet-stream"

\* C2 witness: the converter exited nonzero and left a non-empty output file;
\* the answer is 500 Converter failed
C2_Witness ==
    \E c \in Clients :
        /\ conn[c].st = "closed" /\ IsConvert(c) /\ hist[c].runs = 1
        /\ hist[c].exited /\ hist[c].rc # 0
        /\ hist[c].output.exists /\ BLen(hist[c].output.data) > 0
        /\ resp[c].status = 500 /\ resp[c].text = "Converter failed: "

\* C3: a handler waiting on the converter does not wait for ever, and once the
\* timeout has expired on a running converter the request ends answered 504
\* Conversion timeout with its temporary directory removed, whether or not the
\* converter would ever exit on its own.
C3_TimeoutAnswered ==
    /\ (pc = "wait") ~> (pc \in {"return", "raise"})
    /\ (pc = "kill") ~>
         (/\ pc = "return"
          /\ resp[cur].lines = 1
          /\ resp[cur].status = 504
          /\ resp[cur].text = "Conversion timeout"
          /\ NothingLeft(cur))

\* C3 witness: the converter never exited by itself, it was killed, the answer
\* is 504 and the handler is about to remove the directory
C3_Witness ==
    /\ pc = "exit"
    /\ proc.state = "killed"
    /\ hist[cur].timedout
    /\ resp[cur].status = 504

\* C4: every request that was handled got exactly one status line, whatever
\* failed while handling it.
C4_OneResponseAlways ==
    \A c \in Clients : conn[c].st = "closed" => resp[c].lines = 1

\* C5: POST /convert with an absent, zero, negative or non-integer
\* Content-Length is answered 400 Missing request body, with no temporary
\* directory created, no body byte read and no converter run.
C5_BadLengthIs400 ==
    \A c \in Clients :
        (/\ conn[c].st = "closed"
         /\ conn[c].req.method = "POST"
         /\ conn[c].req.path = ConvertPath
         /\ (conn[c].req.cl.kind # "int" \/ conn[c].req.cl.val <= 0))
        => /\ resp[c].status = 400
           /\ resp[c].text = "Missing request body"
           /\ hist[c].mkdirs = 0 /\ hist[c].runs = 0 /\ conn[c].rpos = 0

ConverterFailed(c) ==
    conn[c].st = "closed" /\ hist[c].exited /\ hist[c].rc # 0

\* C6 as claimed: on a nonzero exit the answer is 500 and its error field has
\* at most 500 characters and no newline.
C6_ErrorFieldAtMost500 ==
    \A c \in Clients :
        ConverterFailed(c) =>
            /\ resp[c].status = 500
            /\ Len(resp[c].text) + BLen(resp[c].data) <= ErrLimit
            /\ Count(resp[c].data, NL) = 0

\* C6 as amended: on a nonzero exit the answer is 500 and its error field is
\* "Converter failed: " followed by the first 500 characters at most of the
\* decoded stderr with newlines replaced by spaces: at most 500 characters
\* after the prefix, no newline.
C6_ErrorExcerptAtMost500 ==
    \A c \in Clients :
        ConverterFailed(c) =>
            /\ resp[c].status = 500
            /\ resp[c].text = "Converter failed: "
            /\ BLen(resp[c].data) <= ErrLimit
            /\ BLen(resp[c].data) = Min(ErrLimit, BLen(Decode(hist[c].stderr)))
            /\ Count(resp[c].data, NL) = 0

\* C6 witness: stderr was longer than 500 characters and had newlines in its
\* first 500; the excerpt has exactly 500 characters
C6_Witness ==
    \E c \in Clients :
        /\ ConverterFailed(c)
        /\ BLen(hist[c].stderr) > ErrLimit
        /\ Count(Take(hist[c].stderr, ErrLimit), NL) > 0
        /\ BLen(resp[c].data) = ErrLimit

\* C7: 200 OK only for exactly GET /health; the conversion flow only for POST
\* with path exactly /convert; every other method and path gets 404 Not Found.
C7_Routing ==
    \A c \in Clients :
        conn[c].st = "closed" =>
            LET r == conn[c].req
                health == r.method = "GET" /\ r.path = HealthPath
                convert == r.method = "POST" /\ r.path = ConvertPath
            IN  /\ (resp[c].status = 200 /\ resp[c].text = "OK") <=> health
                /\ ~convert => hist[c].mkdirs = 0 /\ hist[c].runs = 0
                /\ (~health /\ ~convert) =>
                     resp[c].status = 404 /\ resp[c].text = "Not Found"

\* C8: a GET /health that has arrived while a POST /convert is being handled
\* (reading its body or waiting on its converter) can be taken up at once,
\* without waiting for that conversion to be answered.
C8_HealthNotBlocked ==
    \A c \in Clients :
        (/\ conn[c].st = "queued"
         /\ conn[c].req.method = "GET"
         /\ conn[c].req.path = HealthPath
         /\ cur # NoClient
         /\ IsConvert(cur)
         /\ pc \in {"copy", "wait"})
        => ENABLED Accept(c)

\* C9: whatever the order in which POST /convert requests arrive and are
\* handled, every temporary directory and every file that exists belongs to
\* the one request being handled and lies in its own directory (so no two
\* requests ever hold the same directory and none touches another's files);
\* a request whose converter succeeds answers 200 with its own output and
\* leaves nothing behind.
C9_Isolation ==
    /\ \A d \in DOMAIN fs.dirs : fs.dirs[d] = cur /\ d = loc.tmpdir
    /\ \A p \in DOMAIN fs.files : fs.files[p].by = cur /\ p[1] = loc.tmpdir
    /\ \A c \in Clients :
         (conn[c].st = "closed" /\ ConverterSucceeded(c)) =>
             /\ resp[c].status = 200
             /\ hist[c].raised \/ resp[c].data = hist[c].output.data
             /\ NothingLeft(c)

\* C9 witness: two identical POST /convert requests, the second sent while the
\* first was being handled, both answered 200 with their own output
C9_Witness ==
    /\ conn["c1"].st = "closed" /\ conn["c2"].st = "closed"
    /\ conn["c1"].req = conn["c2"].req
    /\ hist["c2"].behind = "c1"
    /\ \A c \in Clients :
         /\ ConverterSucceeded(c) /\ ~hist[c].raised
         /\ resp[c].status = 200
         /\ resp[c].data = conn[c].req.stream

\* bytes of the stream that a request declaring k bytes can deliver
Deliverable(c) ==
    Take(conn[c].req.stream, Min(conn[c].req.cl.val, BLen(conn[c].req.stream)))

\* C10: the input file handed to the converter holds exactly the first
\* min(declared length, bytes before end of stream) bytes of the body, written
\* by reads of at most 65536 bytes, in a bounded number of reads; a 200 answer
\* that was streamed to its end carries exactly the bytes of the output file,
\* in writes of at most 65536 bytes; so with a converter that copies its input
\* and a body as long as declared the answer equals the body.
C10_BytePlumbing ==
    \A c \in Clients :
        /\ hist[c].maxread <= ChunkSize
        /\ hist[c].maxwrite <= ChunkSize
        /\ conn[c].rpos <= BLen(Deliverable(c))
        /\ IsConvert(c) =>
             hist[c].reads <= ((conn[c].req.cl.val + ChunkSize - 1) \div ChunkSize) + 1
        /\ hist[c].launched =>
             /\ hist[c].input.exists
             /\ hist[c].input.data = Deliverable(c)
        /\ (Returned(c) /\ ~hist[c].raised /\ resp[c].status = 200 /\ IsConvert(c)) =>
             /\ resp[c].data = hist[c].output.data
             /\ (/\ hist[c].output.data = hist[c].input.data
                 /\ conn[c].req.cl.val = BLen(conn[c].req.stream))
                => resp[c].data = conn[c].req.stream

\* C10 witness: a body of more than one chunk, declared exactly, copied by the
\* converter and answered whole
C10_Witness ==
    \E c \in Clients :
        /\ conn[c].st = "closed" /\ ~hist[c].raised /\ resp[c].status = 200
        /\ BLen(conn[c].req.stream) > ChunkSize
        /\ conn[c].req.cl.val = BLen(conn[c].req.stream)
        /\ hist[c].reads >= 2
        /\ hist[c].maxread = ChunkSize
        /\ hist[c].input.data = conn[c].req.stream
        /\ resp[c].data = conn[c].req.stream

====
